---- MODULE Spec2Model ----
(***************************************************************************)
(* Model of the fetch-filter-cache pipeline of rick-morty-devops:          *)
(*   fetch_characters.py  fetch_all_characters, filter_characters,         *)
(*                        save_to_csv and the script entry point           *)
(*   app.py               the start-up cache _characters and the three     *)
(*                        Flask handlers                                   *)
(* Strings whose characters matter (origin.name for the substring test,    *)
(* name / location.name / image for the CSV encoding) are sequences of     *)
(* one-character strings.  A record (Python dict) is a function whose      *)
(* domain is the set of keys it has; an absent key is absent from DOMAIN.  *)
(***************************************************************************)
EXTENDS FiniteSets, Integers, Sequences, TLC

(***************************************************************************)
(* Bounds                                                                  *)
(***************************************************************************)
MaxPages == 2
MaxPageSize == 2
MaxRecords == 3

(***************************************************************************)
(* URLs.  A URL is a positive number, page k of the upstream lives at URL  *)
(* k; None is Python's None and EmptyStr the empty string, the two falsy   *)
(* values a next cursor can take.                                          *)
(***************************************************************************)
API_URL == 1
OUTPUT_FILE == "characters.csv"
None == 0
EmptyStr == -1
InitialParams == {<<"species", "Human">>, <<"status", "Alive">>}
\* (params never reset after the first request)
ParamsKept == InitialParams
EmptyParams == {}

Truthy(u) == u \notin {None, EmptyStr}

(***************************************************************************)
(* Character strings                                                       *)
(***************************************************************************)
Earth == <<"E", "a", "r", "t", "h">>
sEarthC137 == <<"E", "a", "r", "t", "h", " ", "(", "C", "-", "1", "3", "7", ")">>
sMars == <<"M", "a", "r", "s">>
sUnknown == <<"u", "n", "k", "n", "o", "w", "n">>
sLowerEarth == <<"e", "a", "r", "t", "h">>
sEart == <<"E", "a", "r", "t">>
sPreEarth == <<"X", "E", "E", "a", "r", "t", "h", "s">>
sRick == <<"R", "i", "c", "k">>
sZorp == <<"Z", "o", "r", "p">>
sComma == <<"S", ",", "J">>
sQuote == <<"\"", "B", "\"">>
sNewline == <<"a", "\n", "b">>
sCit == <<"C", "i", "t">>
sImg == <<"i", ".", "p">>

(***************************************************************************)
(* Records of the upstream catalogue                                       *)
(***************************************************************************)
Character(id, name, origin, location, image) ==
    [id |-> id, name |-> name, status |-> "Alive", species |-> "Human",
     gender |-> "unknown", origin |-> [name |-> origin, url |-> ""],
     location |-> [name |-> location, url |-> ""], image |-> image,
     episode |-> <<"e1">>, url |-> id]

Without(r, key) == [k \in (DOMAIN r) \ {key} |-> r[k]]
With(r, key, val) == [k \in (DOMAIN r) \cup {key} |-> IF k = key THEN val ELSE r[k]]

Rick == Character(1, sRick, sEarthC137, sCit, sImg)
Zorp == Character(2, sZorp, sMars, sCit, sImg)

SmallCatalog == {Rick, Zorp}

FullCatalog ==
    { Rick, Zorp,
      Character(3, sComma, Earth, sQuote, sNewline),
      Character(4, sZorp, sUnknown, sCit, sImg),
      Character(5, sRick, sLowerEarth, sCit, <<>>),
      Character(6, sRick, <<>>, sCit, sImg),
      Character(7, sRick, sEart, sCit, sImg),
      Character(8, <<>>, sPreEarth, <<>>, sImg),
      Without(Character(9, sRick, Earth, sCit, sImg), "origin"),
      With(Character(10, sRick, Earth, sCit, sImg), "origin", [url |-> ""]),
      Without(Character(11, sRick, Earth, sCit, sImg), "image"),
      With(Character(12, sRick, Earth, sCit, sImg), "location", [url |-> ""]) }

SeqsUpTo(S, n) == UNION {[1..k -> S] : k \in 0..n}

(***************************************************************************)
(* The upstream: a function from URL to the response it serves.            *)
(***************************************************************************)
OkResponse(results, next) ==
    [status |-> 200, json |-> TRUE,
     data |-> [info |-> [next |-> next], results |-> results]]

\* a 4xx or 5xx answer carries a JSON error object, a 304 carries no body
ErrorResponse(code) ==
    [status |-> code, json |-> (code # 304), data |-> [error |-> "There is nothing here"]]

ErrorStatuses == {304, 404, 500}

NextOf(k, n) == IF k < n THEN k + 1 ELSE None

\* what a page may answer: up to MaxPageSize records, or an error status
PageAnswers ==
    {[status |-> 200, results |-> r] : r \in SeqsUpTo(SmallCatalog, MaxPageSize)}
        \cup {[status |-> code, results |-> <<>>] : code \in ErrorStatuses}

Answer(a, next) ==
    IF a.status = 200 THEN OkResponse(a.results, next) ELSE ErrorResponse(a.status)

\* upstreams of n pages chained 1 -> 2 -> ... -> n -> None
ChainUpstreams ==
    UNION { { [k \in 1..n |-> Answer(v[k], NextOf(k, n))] : v \in [1..n -> PageAnswers] } :
            n \in 1..MaxPages }

\* upstreams of one successful page holding up to MaxRecords records
RecordUpstreams ==
    { [k \in 1..1 |-> OkResponse(res, None)] : res \in SeqsUpTo(FullCatalog, MaxRecords) }

\* a successful answer whose info object has no next key
NoNextResponse(results) ==
    [status |-> 200, json |-> TRUE,
     data |-> [info |-> [prev |-> None], results |-> results]]

\* a successful answer without the info object
NoInfoResponse(results) ==
    [status |-> 200, json |-> TRUE, data |-> [results |-> results]]

\* a successful answer without the results list
NoResultsResponse == [status |-> 200, json |-> TRUE, data |-> [info |-> [next |-> None]]]

PageBodies == {<<>>, <<Rick>>, <<Zorp, Rick>>}

\* what a page of an n-page upstream may answer when the cursor is free:
\* a page whose next is null, empty or any of the n URLs, a page without
\* next, without info or without results, or an error status
FreeAnswers(n) ==
    {OkResponse(r, next) : r \in PageBodies, next \in {None, EmptyStr} \cup (1..n)}
        \cup {NoNextResponse(r) : r \in PageBodies}
        \cup {NoInfoResponse(r) : r \in PageBodies}
        \cup {NoResultsResponse, ErrorResponse(500)}

\* upstreams of up to MaxPages pages whose cursors may end, be missing,
\* skip pages or lead back to a page already served
FreeUpstreams == UNION { [1..n -> FreeAnswers(n)] : n \in 1..MaxPages }

VARIABLES
    program,        \* "app" (app.py) or "script" (fetch_characters.py as main)
    upstream,       \* the upstream API
    fs,             \* the file system: path -> [exists, content]
    pc,             \* position of the process
    url,            \* fetch_all_characters: url
    params,         \* fetch_all_characters: params
    characters,     \* fetch_all_characters: characters, the accumulator and,
                    \* once pc = "returned", the value returned
    requests,       \* log of the GET requests issued, in order
    parsed,         \* number of responses parsed so far
    cached,         \* whether the filtered list has been bound
    _characters,    \* app.py: _characters / script: filtered_characters
    filename,       \* save_to_csv: filename, "" before the call
    error,          \* the exception that ended the process, "" if none
    lastResponse    \* the last HTTP response a handler produced

vars == <<program, upstream, fs, pc, url, params, characters, requests, parsed,
          cached, _characters, filename, error, lastResponse>>


(***************************************************************************)
(* filter_characters                                                       *)
(***************************************************************************)
\* Python's  needle in hay  on strings
StartsWith(needle, hay) ==
    Len(hay) >= Len(needle) /\ SubSeq(hay, 1, Len(needle)) = needle
Contains(needle, hay) ==
    \E i \in 1..(Len(hay) - Len(needle) + 1) :
        SubSeq(hay, i, i + Len(needle) - 1) = needle

\* character["origin"]["name"] evaluates without KeyError
HasOriginName(c) == "origin" \in DOMAIN c /\ "name" \in DOMAIN c["origin"]

\* the condition of the comprehension, for a record that has origin.name
KeepsCharacter(c) == Contains(Earth, c["origin"]["name"])

\* the comprehension raises at the first record without origin.name,
\* whatever the records around it are
FilterRaises(chars) == \E i \in 1..Len(chars) : ~HasOriginName(chars[i])

Reverse(s) == [i \in 1..Len(s) |-> s[Len(s) + 1 - i]]

filter_characters_reordering(chars) ==
    IF FilterRaises(chars)
    THEN [ok |-> FALSE, value |-> <<>>, error |-> "KeyError"]
    ELSE [ok |-> TRUE, value |-> Reverse(SelectSeq(chars, KeepsCharacter)), error |-> ""]

filter_characters_skipping(chars) ==
    [ok |-> TRUE,
     value |-> SelectSeq(chars, LAMBDA c : HasOriginName(c) /\ KeepsCharacter(c)),
     error |-> ""]

filter_characters(chars) ==
    IF FilterRaises(chars)
    THEN [ok |-> FALSE, value |-> <<>>, error |-> "KeyError"]
    ELSE [ok |-> TRUE, value |-> SelectSeq(chars, KeepsCharacter), error |-> ""]

(***************************************************************************)
(* csv.writer with the default (excel) dialect                             *)
(***************************************************************************)
Header == << <<"N", "a", "m", "e">>,
             <<"L", "o", "c", "a", "t", "i", "o", "n">>,
             <<"I", "m", "a", "g", "e">> >>

LineTerminator == <<"\r", "\n">>

NeedsQuote(field) ==
    \E i \in 1..Len(field) : field[i] \in {",", "\"", "\r", "\n"}

RECURSIVE DoubleQuotes(_)
DoubleQuotes(field) ==
    IF field = <<>> THEN <<>>
    ELSE (IF Head(field) = "\"" THEN <<"\"", "\"">> ELSE <<Head(field)>>)
         \o DoubleQuotes(Tail(field))

EncodeField(field) ==
    IF NeedsQuote(field) THEN <<"\"">> \o DoubleQuotes(field) \o <<"\"">>
    ELSE field

RECURSIVE JoinFields(_)
JoinFields(row) ==
    IF Len(row) = 0 THEN <<>>
    ELSE IF Len(row) = 1 THEN EncodeField(row[1])
    ELSE EncodeField(Head(row)) \o <<",">> \o JoinFields(Tail(row))

writerow(row) == JoinFields(row) \o LineTerminator

(***************************************************************************)
(* save_to_csv                                                             *)
(***************************************************************************)
\* the three subscripts of the data row evaluate without KeyError
HasRowFields(c) ==
    /\ "name" \in DOMAIN c
    /\ "location" \in DOMAIN c
    /\ "name" \in DOMAIN c["location"]
    /\ "image" \in DOMAIN c

DataRow(c) == <<c["name"], c["location"]["name"], c["image"]>>

\* index of the first record whose row cannot be built, Len + 1 if none
FirstBadRow(chars) ==
    IF \A i \in 1..Len(chars) : HasRowFields(chars[i]) THEN Len(chars) + 1
    ELSE CHOOSE i \in 1..Len(chars) :
            /\ ~HasRowFields(chars[i])
            /\ \A j \in 1..(i - 1) : HasRowFields(chars[j])

RECURSIVE WriteRows(_, _)
WriteRows(chars, n) ==
    IF n = 0 THEN <<>>
    ELSE WriteRows(chars, n - 1) \o writerow(DataRow(chars[n]))

\* open(filename, "w") truncates; the header and the rows before the first
\* KeyError are written, and the with block closes the file either way
save_to_csv(chars, old) ==
    LET bad == FirstBadRow(chars)
    IN  [ok |-> bad > Len(chars),
         file |-> [exists |-> TRUE,
                   content |-> writerow(Header) \o WriteRows(chars, bad - 1)],
         error |-> IF bad > Len(chars) THEN "" ELSE "KeyError"]

(***************************************************************************)
(* The handlers' projections                                               *)
(***************************************************************************)
Listing(c) == [name |-> c["name"], location |-> c["location"]["name"],
               image |-> c["image"]]

HasDashboardFields(c) ==
    /\ HasRowFields(c)
    /\ {"id", "status", "species", "gender", "origin", "episode", "url"} \subseteq DOMAIN c
    /\ "name" \in DOMAIN c["origin"]

Detail(c) == [id |-> c["id"], name |-> c["name"], status |-> c["status"],
              species |-> c["species"], gender |-> c["gender"],
              origin |-> c["origin"]["name"], location |-> c["location"]["name"],
              image |-> c["image"], episodes |-> Len(c["episode"]), url |-> c["url"]]

NoResponse == [route |-> "", status |-> 0]
InternalServerError(route) == [route |-> route, status |-> 500]

dashboard_response(chars) ==
    IF \A i \in 1..Len(chars) : HasDashboardFields(chars[i])
    THEN [route |-> "/", status |-> 200,
          body |-> [characters |-> [i \in 1..Len(chars) |-> Detail(chars[i])],
                    cards |-> [i \in 1..Len(chars) |-> Listing(chars[i])],
                    count |-> Len(chars)]]
    ELSE InternalServerError("/")

healthcheck_response == [route |-> "/healthcheck", status |-> 200,
                         body |-> [status |-> "ok"]]

get_characters_response(chars) ==
    IF \A i \in 1..Len(chars) : HasRowFields(chars[i])
    THEN LET result == [i \in 1..Len(chars) |-> Listing(chars[i])]
         IN  [route |-> "/characters", status |-> 200,
              body |-> [count |-> Len(result), characters |-> result]]
    ELSE InternalServerError("/characters")


(***************************************************************************)
(* Initial states                                                          *)
(***************************************************************************)
Paths == {OUTPUT_FILE, "other.csv"}

NoFile == [exists |-> FALSE, content |-> <<>>]
OldFile == [exists |-> TRUE,
            content |-> writerow(Header) \o writerow(<<sZorp, sMars, sImg>>)
                        \o writerow(<<sRick, sCit, sImg>>)
                        \o writerow(<<sRick, sCit, sImg>>)
                        \o writerow(<<sRick, sCit, sImg>>)
                        \o writerow(<<sRick, sCit, sImg>>)]

\* the app never touches the file system; the script finds one of the paths
\* holding an earlier export and the other absent
FileSystems(prog) ==
    IF prog = "app" THEN {[p \in Paths |-> NoFile]}
    ELSE {[p \in Paths |-> IF p = old THEN OldFile ELSE NoFile] : old \in Paths}

InitProcess ==
    /\ program \in {"app", "script"}
    /\ fs \in FileSystems(program)
    /\ pc = "loop"
    /\ url = API_URL
    /\ params = InitialParams
    /\ characters = <<>>
    /\ requests = <<>>
    /\ parsed = 0
    /\ cached = FALSE
    /\ _characters = <<>>
    /\ filename = ""
    /\ error = ""
    /\ lastResponse = NoResponse

InitChain == upstream \in ChainUpstreams /\ InitProcess

InitRecords == upstream \in RecordUpstreams /\ InitProcess

Init == InitChain \/ InitRecords

InitFree == upstream \in FreeUpstreams /\ InitProcess

(***************************************************************************)
(* fetch_all_characters                                                    *)
(***************************************************************************)
\* (an except clause around the call that returns what there is)
RaiseCaught(exc) ==
    /\ pc' = "returned"
    /\ error' = exc

Raise(exc) ==
    /\ pc' = "crashed"
    /\ error' = exc

\* while url:  requests.get(url, params=params)  -- the request goes out and
\* the call blocks until the response is there
SendRequestVisited ==
    /\ pc = "loop"
    /\ Truthy(url)
    /\ Len(requests) < MaxPages + 1
    /\ IF \E i \in 1..Len(requests) : requests[i].url = url
       THEN pc' = "returned" /\ UNCHANGED requests
       ELSE /\ requests' = Append(requests, [url |-> url, params |-> params])
            /\ pc' = "get"
    /\ UNCHANGED <<program, upstream, fs, url, params, characters, parsed,
                   cached, _characters, filename, error, lastResponse>>
SendRequest ==
    /\ pc = "loop"
    /\ Truthy(url)
    /\ Len(requests) < MaxPages + 1
    /\ requests' = Append(requests, [url |-> url, params |-> params])
    /\ pc' = "get"
    /\ UNCHANGED <<program, upstream, fs, url, params, characters, parsed,
                   cached, _characters, filename, error, lastResponse>>

\* characters.extend(data["results"])
ExtendDropsEarlier(acc, results) == results
Extend(acc, results) == acc \o results

\* url = data["info"]["next"]
NextCursorIgnored(data) == None
NextCursor(data) == data["info"]["next"]

\* raise_for_status raises for a 4xx or 5xx status
RaisesForStatus(response) == response.status >= 400 /\ response.status < 600

\* the rest of the loop body, on the response to the request in flight
ReceiveResponse ==
    /\ pc = "get"
    /\ LET response == upstream[url]
           data == response.data
       IN  IF RaisesForStatus(response)
           THEN /\ Raise("HTTPError")
                /\ UNCHANGED <<url, params, characters, parsed>>
           ELSE IF ~response.json
           THEN /\ Raise("JSONDecodeError")
                /\ UNCHANGED <<url, params, characters, parsed>>
           ELSE IF "results" \notin DOMAIN data
           THEN /\ Raise("KeyError")
                /\ UNCHANGED <<url, params, characters, parsed>>
           ELSE IF "info" \notin DOMAIN data \/ "next" \notin DOMAIN data["info"]
           THEN /\ Raise("KeyError")
                /\ characters' = Extend(characters, data["results"])
                /\ UNCHANGED <<url, params, parsed>>
           ELSE /\ characters' = Extend(characters, data["results"])
                /\ url' = NextCursor(data)
                /\ params' = EmptyParams
                /\ parsed' = parsed + 1
                /\ pc' = "loop"
                /\ UNCHANGED error
    /\ UNCHANGED <<program, upstream, fs, requests, cached, _characters,
                   filename, lastResponse>>

\* the loop condition fails: return characters
FetchReturn ==
    /\ pc = "loop"
    /\ ~Truthy(url)
    /\ pc' = "returned"
    /\ UNCHANGED <<program, upstream, fs, url, params, characters, requests,
                   parsed, cached, _characters, filename, error, lastResponse>>

(***************************************************************************)
(* app.py: start-up and handlers                                           *)
(***************************************************************************)
\* _characters = filter_characters(fetch_all_characters()); an exception
\* ends the import, so the app never serves
LoadCache ==
    /\ program = "app"
    /\ pc = "returned"
    /\ LET r == filter_characters(characters)
       IN  IF r.ok
           THEN /\ _characters' = r.value
                /\ cached' = TRUE
                /\ pc' = "serving"
                /\ UNCHANGED error
           ELSE /\ Raise(r.error)
                /\ UNCHANGED <<_characters, cached>>
    /\ UNCHANGED <<program, upstream, fs, url, params, characters, requests,
                   parsed, filename, lastResponse>>

\* GET /  (a KeyError in a handler becomes a 500 response; the app goes on)
dashboard ==
    /\ pc = "serving"
    /\ lastResponse' = dashboard_response(_characters)
    /\ UNCHANGED <<program, upstream, fs, pc, url, params, characters, requests,
                   parsed, cached, _characters, filename, error>>

\* GET /healthcheck
healthcheck ==
    /\ pc = "serving"
    /\ lastResponse' = healthcheck_response
    /\ UNCHANGED <<program, upstream, fs, pc, url, params, characters, requests,
                   parsed, cached, _characters, filename, error>>

\* (a handler that reorders the shared list in place)
get_characters_sorting ==
    /\ pc = "serving"
    /\ lastResponse' = get_characters_response(_characters)
    /\ _characters' = Reverse(_characters)
    /\ UNCHANGED <<program, upstream, fs, pc, url, params, characters, requests,
                   parsed, cached, filename, error>>

\* GET /characters
get_characters ==
    /\ pc = "serving"
    /\ lastResponse' = get_characters_response(_characters)
    /\ UNCHANGED <<program, upstream, fs, pc, url, params, characters, requests,
                   parsed, cached, _characters, filename, error>>

(***************************************************************************)
(* fetch_characters.py run as a script                                     *)
(***************************************************************************)
\* filtered_characters = filter_characters(all_characters)
MainFilter ==
    /\ program = "script"
    /\ pc = "returned"
    /\ LET r == filter_characters(characters)
       IN  IF r.ok
           THEN /\ _characters' = r.value
                /\ cached' = TRUE
                /\ pc' = "save"
                /\ UNCHANGED error
           ELSE /\ Raise(r.error)
                /\ UNCHANGED <<_characters, cached>>
    /\ UNCHANGED <<program, upstream, fs, url, params, characters, requests,
                   parsed, filename, lastResponse>>

\* save_to_csv(filtered_characters, filename)
MainSave ==
    /\ pc = "save"
    /\ \E path \in Paths :
          LET r == save_to_csv(_characters, fs[path])
          IN  /\ filename' = path
              /\ fs' = [fs EXCEPT ![path] = r.file]
              /\ IF r.ok THEN pc' = "done" /\ UNCHANGED error
                         ELSE Raise(r.error)
    /\ UNCHANGED <<program, upstream, url, params, characters, requests,
                   parsed, cached, _characters, lastResponse>>

Next ==
    \/ SendRequest
    \/ ReceiveResponse
    \/ FetchReturn
    \/ LoadCache
    \/ dashboard
    \/ healthcheck
    \/ get_characters
    \/ MainFilter
    \/ MainSave

Spec == Init /\ [][Next]_vars

\* the process is sequential and the upstream answers every request
LiveSpec ==
    /\ InitChain
    /\ [][Next]_vars
    /\ WF_vars(SendRequest)
    /\ WF_vars(ReceiveResponse)
    /\ WF_vars(FetchReturn)


\* the same process against upstreams whose cursors are free
FreeSpec == InitFree /\ [][Next]_vars

(***************************************************************************)
(* Properties                                                              *)
(***************************************************************************)
NumPages == Len(upstream)

\* every page of the upstream answers successfully with a page body
AllPagesOk ==
    \A k \in 1..NumPages :
        /\ upstream[k].status = 200
        /\ upstream[k].json
        /\ {"info", "results"} \subseteq DOMAIN upstream[k].data

\* the results of pages 1..k, page after page
RECURSIVE PagesUpTo(_)
PagesUpTo(k) ==
    IF k = 0 THEN <<>> ELSE PagesUpTo(k - 1) \o upstream[k].data["results"]

RECURSIVE SizesUpTo(_)
SizesUpTo(k) ==
    IF k = 0 THEN 0 ELSE SizesUpTo(k - 1) + Len(upstream[k].data["results"])

\* C1 - Pagination completeness: when every page of the chain answers
\* successfully, the value fetch_all_characters returns is the concatenation
\* of the pages' results in page order and in each page's own order; its
\* length is the sum of the page sizes, and it is empty when every page is.
C1_PaginationCompleteness ==
    (AllPagesOk /\ pc = "returned") =>
        /\ characters = PagesUpTo(NumPages)
        /\ Len(characters) = SizesUpTo(NumPages)
        /\ \A i \in 1..Len(upstream[1].data["results"]) :
               characters[i] = upstream[1].data["results"][i]
        /\ ((\A k \in 1..NumPages : upstream[k].data["results"] = <<>>)
               => characters = <<>>)

C1_Witness ==
    /\ pc = "returned"
    /\ NumPages >= 2
    /\ upstream[1].data["results"] = <<Zorp, Rick>>
    /\ upstream[2].data["results"] = <<Rick>>
    /\ characters = <<Zorp, Rick, Rick>>

RequestUrls == [i \in 1..Len(requests) |-> requests[i].url]

\* C2 - Pagination termination: for a chain of N successful pages ending in
\* null the fetch eventually returns; when it has returned it has issued
\* exactly N GETs, to pages 1..N in chain order; a request is only issued
\* once every earlier response has been parsed; and a single page with
\* next = null yields that page's records after one request.
C2_PaginationTermination ==
    AllPagesOk =>
        /\ <>(pc = "returned")
        /\ [](pc = "returned" =>
                /\ Len(requests) = NumPages
                /\ RequestUrls = [k \in 1..NumPages |-> k]
                /\ (NumPages = 1 => characters = upstream[1].data["results"]))
        /\ [](/\ Len(requests) \in {parsed, parsed + 1}
              /\ (pc = "get" <=> Len(requests) = parsed + 1))

C2_Witness ==
    /\ AllPagesOk
    /\ pc = "returned"
    /\ NumPages = 1
    /\ Len(requests) = 1
    /\ characters = <<Rick, Zorp>>

\* the characters E, a, r, t, h stand next to each other somewhere in s
EarthIn(s) ==
    \E i \in 1..Len(s) :
        /\ i + 4 <= Len(s)
        /\ s[i] = "E" /\ s[i + 1] = "a" /\ s[i + 2] = "r"
        /\ s[i + 3] = "t" /\ s[i + 4] = "h"

Range(s) == {s[i] : i \in 1..Len(s)}

\* the filter ran on the returned list and did not raise
Filtered == cached

\* C3 - Filter correctness: when every input record has origin.name, the
\* filter keeps a record iff its origin.name contains the case-sensitive
\* substring "Earth": "Earth (C-137)" and "Earth" are kept, "Mars",
\* "unknown", "earth" and "" are dropped.
C3_FilterCorrectness ==
    Filtered =>
        /\ \A c \in Range(characters) :
               c \in Range(_characters) <=> EarthIn(c["origin"]["name"])
        /\ \A c \in Range(characters) :
               /\ (c["origin"]["name"] \in {sEarthC137, Earth} => c \in Range(_characters))
               /\ (c["origin"]["name"] \in {sMars, sUnknown, sLowerEarth, <<>>}
                      => c \notin Range(_characters))

C3_Witness ==
    /\ Filtered
    /\ \E c \in Range(_characters) : c["origin"]["name"] = sPreEarth
    /\ \E c \in Range(characters) : c["origin"]["name"] = sLowerEarth
    /\ \E c \in Range(characters) : c["origin"]["name"] = sEart

\* a is b with some elements left out, the others in b's order
RECURSIVE IsSubsequence(_, _)
IsSubsequence(a, b) ==
    IF a = <<>> THEN TRUE
    ELSE IF b = <<>> THEN FALSE
    ELSE IF Head(a) = Head(b) THEN IsSubsequence(Tail(a), Tail(b))
    ELSE IsSubsequence(a, Tail(b))

\* C4 - Filter purity and order preservation: the filter's result is a
\* subsequence of its input in the same relative order, made of unchanged
\* input records; the input is still the list that was fetched; and
\* filtering the result again gives the result.
C4_FilterPurity ==
    Filtered =>
        /\ IsSubsequence(_characters, characters)
        /\ \A i \in 1..Len(_characters) :
               \E j \in 1..Len(characters) :
                   /\ _characters[i] = characters[j]
                   /\ DOMAIN _characters[i] = DOMAIN characters[j]
        /\ characters = PagesUpTo(NumPages)
        /\ filter_characters(_characters).ok
        /\ filter_characters(_characters).value = _characters

C4_Witness ==
    /\ Filtered
    /\ Len(characters) = 3
    /\ Len(_characters) = 2
    /\ _characters[1] # _characters[2]
    /\ _characters = <<characters[1], characters[3]>>


\* the pages that answer with a status outside 2xx
FailingPages == {k \in 1..NumPages : upstream[k].status \notin 200..299}

FirstFailing == CHOOSE k \in FailingPages : \A j \in FailingPages : k <= j

ExpectedCache ==
    SelectSeq(PagesUpTo(NumPages), LAMBDA c : EarthIn(c["origin"]["name"]))

\* C6 - Cache immutability: the cache is bound in one step, from the value
\* the fetch returned, before any request is handled; once bound it never
\* changes, whatever requests are handled, and handling a request issues
\* no upstream request.
C6_CacheImmutability ==
    [][/\ (~cached /\ cached') =>
              /\ pc = "returned"
              /\ lastResponse = NoResponse
              /\ _characters' = ExpectedCache
       /\ cached => (cached' /\ _characters' = _characters)
       /\ lastResponse' # lastResponse =>
              /\ cached
              /\ requests' = requests
              /\ pc' = pc
       /\ (program = "app" /\ pc = "serving") =>
              (requests' = requests /\ pc' = "serving")]_vars

C6_Witness ==
    /\ pc = "serving"
    /\ lastResponse.route = "/characters"
    /\ Len(_characters) = 2
    /\ _characters[1] # _characters[2]
    /\ Len(characters) = 3

\* C7 - JSON listing: every GET /characters response has status 200, its
\* count is the number of cached records and its list has one entry per
\* cached record, in cache order, with the record's name, location.name and
\* image; for the single page [Rick, Zorp] the count is 1 and the entry Rick.
C7_JsonListing ==
    lastResponse.route = "/characters" =>
        /\ lastResponse.status = 200
        /\ lastResponse.body.count = Len(_characters)
        /\ Len(lastResponse.body.characters) = Len(_characters)
        /\ \A i \in 1..Len(_characters) :
               /\ lastResponse.body.characters[i].name = _characters[i]["name"]
               /\ lastResponse.body.characters[i].location
                      = _characters[i]["location"]["name"]
               /\ lastResponse.body.characters[i].image = _characters[i]["image"]
        /\ (upstream = <<OkResponse(<<Rick, Zorp>>, None)>> =>
               /\ lastResponse.body.count = 1
               /\ lastResponse.body.characters
                      = <<[name |-> sRick, location |-> sCit, image |-> sImg]>>)

\* the same for a cache whose records all have the fields the handler reads
JsonListingWhenComplete ==
    (/\ lastResponse.route = "/characters"
     /\ \A i \in 1..Len(_characters) : HasRowFields(_characters[i])) =>
        /\ lastResponse.status = 200
        /\ lastResponse.body.count = Len(_characters)
        /\ lastResponse.body.characters
               = [i \in 1..Len(_characters) |->
                     [name |-> _characters[i]["name"],
                      location |-> _characters[i]["location"]["name"],
                      image |-> _characters[i]["image"]]]

\* the record lacks name, location, location.name or image
LacksPresentationField(c) ==
    \/ "name" \notin DOMAIN c
    \/ "image" \notin DOMAIN c
    \/ "location" \notin DOMAIN c
    \/ "name" \notin DOMAIN c["location"]

PassesEarthPredicate(c) ==
    /\ "origin" \in DOMAIN c
    /\ "name" \in DOMAIN c["origin"]
    /\ EarthIn(c["origin"]["name"])

\* C8 - Missing fields are fatal at start-up: the app is never serving with
\* a fetched record that passes the Earth predicate and lacks name,
\* location, location.name or image, and no request ever fails.
C8_MissingFieldsFatal ==
    /\ (program = "app" /\ pc = "serving") =>
           \A c \in Range(characters) :
               PassesEarthPredicate(c) => ~LacksPresentationField(c)
    /\ lastResponse.status # 500

\* C9 - Missing origin is an error: when the fetched list holds a record
\* without origin or without origin.name, the filter raises KeyError and
\* binds no result: the record is not dropped silently and the records
\* around it are not returned.
C9_MissingOriginIsError ==
    (/\ AllPagesOk
     /\ pc \notin {"loop", "get"}
     /\ \E c \in Range(characters) :
            "origin" \notin DOMAIN c \/ "name" \notin DOMAIN c["origin"]) =>
        /\ pc \in {"returned", "crashed"}
        /\ ~cached
        /\ _characters = <<>>
        /\ lastResponse = NoResponse
        /\ filename = ""
        /\ (pc = "crashed" => error = "KeyError")

C9_Witness ==
    /\ pc = "crashed"
    /\ error = "KeyError"
    /\ ~cached
    /\ Len(characters) = 3
    /\ characters[1] = Rick
    /\ "origin" \notin DOMAIN characters[2]
    /\ characters[3] = Rick

(***************************************************************************)
(* Re-reading a file with csv.reader (excel dialect, newline = "")         *)
(***************************************************************************)
\* the reader's state: st is one of "start_record", "start_field",
\* "in_field", "in_quoted", "quote_in_quoted", "eat_crnl"; field is the field
\* being read, row the fields read of the current row, rows the rows read
ReaderStart == [st |-> "start_record", field |-> <<>>, row |-> <<>>, rows |-> <<>>]

EndRecord(s, c) ==
    [st |-> IF c = "\r" THEN "eat_crnl" ELSE "start_record",
     field |-> <<>>, row |-> <<>>,
     rows |-> Append(s.rows, IF s.st \in {"start_record", "eat_crnl"} THEN <<>>
                             ELSE Append(s.row, s.field))]

\* one character
ReadStep(s, c) ==
    CASE s.st = "eat_crnl" /\ c = "\n" -> [s EXCEPT !.st = "start_record"]
      [] s.st = "in_quoted" /\ c = "\"" -> [s EXCEPT !.st = "quote_in_quoted"]
      [] s.st = "in_quoted" /\ c # "\"" -> [s EXCEPT !.field = Append(@, c)]
      [] s.st = "quote_in_quoted" /\ c = "\"" ->
             [s EXCEPT !.st = "in_quoted", !.field = Append(@, c)]
      [] s.st \in {"start_record", "eat_crnl", "start_field"} /\ c = "\"" ->
             [s EXCEPT !.st = "in_quoted"]
      [] OTHER ->
             IF c \in {"\r", "\n"} THEN EndRecord(s, c)
             ELSE IF c = ","
             THEN [s EXCEPT !.st = "start_field", !.field = <<>>,
                            !.row = Append(s.row, s.field)]
             ELSE [s EXCEPT !.st = "in_field", !.field = Append(@, c)]

\* the characters lo..hi of text, read from state s
RECURSIVE ReadChars(_, _, _, _)
ReadChars(text, lo, hi, s) ==
    IF lo > hi THEN s
    ELSE IF lo = hi THEN ReadStep(s, text[lo])
    ELSE LET mid == (lo + hi) \div 2
             left == ReadChars(text, lo, mid, s)
         IN  \* (the test makes the left half be read before the right one)
             IF left.st = "" THEN left ELSE ReadChars(text, mid + 1, hi, left)

reader(text) ==
    LET s == ReadChars(text, 1, Len(text), ReaderStart)
    IN  IF s.st \in {"start_record", "eat_crnl"} THEN s.rows
        ELSE Append(s.rows, Append(s.row, s.field))

\* C10 - Export round-trip: once save_to_csv has run on K records, whatever
\* the file held before, the file re-reads as the header row Name, Location,
\* Image followed by K rows, row i holding the i-th record's name,
\* location.name and image, and nothing else.
C10_ExportRoundTrip ==
    (filename # "" /\ pc \in {"done", "crashed"}) =>
        /\ fs[filename].exists
        /\ LET rows == reader(fs[filename].content)
           IN  /\ Len(rows) = Len(_characters) + 1
               /\ rows[1] = Header
               /\ \A i \in 1..Len(_characters) :
                      /\ ~LacksPresentationField(_characters[i])
                      /\ rows[i + 1] = <<_characters[i]["name"],
                                         _characters[i]["location"]["name"],
                                         _characters[i]["image"]>>

\* the same for an export that ran to completion
ExportRoundTripWhenDone ==
    (filename # "" /\ pc = "done") =>
        /\ fs[filename].exists
        /\ reader(fs[filename].content)
               = <<Header>> \o [i \in 1..Len(_characters) |->
                                   <<_characters[i]["name"],
                                     _characters[i]["location"]["name"],
                                     _characters[i]["image"]>>]
        /\ \A p \in Paths \ {filename} : fs[p] \in {NoFile, OldFile}


(***************************************************************************)
(* Properties of the cursor                                                *)
(***************************************************************************)
\* the answer to the i-th request
AnswerTo(i) == upstream[requests[i].url]

\* C11 - Query parameters only on the first request: the first GET goes to
\* the base URL with exactly species=Human and status=Alive; every later
\* GET goes to exactly the next URL of the answer to the request before it,
\* with no parameters.
C11_ParamsOnlyOnFirstRequest ==
    /\ Len(requests) >= 1 =>
           /\ requests[1].url = API_URL
           /\ requests[1].params = {<<"species", "Human">>, <<"status", "Alive">>}
    /\ \A i \in 2..Len(requests) :
           /\ requests[i].url = AnswerTo(i - 1).data["info"]["next"]
           /\ requests[i].params = {}

C11_Witness ==
    /\ Len(requests) = 3
    /\ requests[2].url = 2
    /\ requests[3].url = API_URL
    /\ requests[3].params = {}

\* the i-th request has been answered and the answer handled
Answered(i) == i < Len(requests) \/ (i = Len(requests) /\ pc # "get")

\* a successful answer with results and an info object without a next key
AbsentCursor(i) ==
    LET a == AnswerTo(i)
    IN  /\ a.status = 200
        /\ a.json
        /\ "results" \in DOMAIN a.data
        /\ "info" \in DOMAIN a.data
        /\ "next" \notin DOMAIN a.data["info"]

\* C12 - Absent cursor ends the fetch normally: once a successful answer
\* with results and an info object without a next key is handled, the page
\* counts as fetched, no exception is raised and no further request goes
\* out, as for next = null.
C12_AbsentCursorEndsFetch ==
    \A i \in 1..Len(requests) :
        (AbsentCursor(i) /\ Answered(i)) =>
            /\ i = Len(requests)
            /\ parsed = i
            /\ error = ""
            /\ pc # "crashed"

\* a successful answer without the results field or without the info field
Malformed(i) ==
    LET a == AnswerTo(i)
    IN  /\ a.status = 200
        /\ a.json
        /\ ("results" \notin DOMAIN a.data \/ "info" \notin DOMAIN a.data)

\* C13 - Malformed response is fatal: when a successful answer lacks results
\* or info, the fetch raises KeyError at that page: the page was requested
\* once and nothing is requested after it, the fetch never returns (neither
\* that page's records nor the earlier ones), no cache is bound, no request
\* is served and the script writes no file.
C13_MalformedResponseFatal ==
    \A i \in 1..Len(requests) :
        Malformed(i) =>
            /\ i = Len(requests)
            /\ \A j \in 1..(i - 1) : requests[j].url # requests[i].url
            /\ pc \in {"get", "crashed"}
            /\ (pc = "crashed" => error = "KeyError" /\ parsed = i - 1)
            /\ ~cached
            /\ _characters = <<>>
            /\ lastResponse = NoResponse
            /\ filename = ""

C13_Witness ==
    /\ program = "app"
    /\ pc = "crashed"
    /\ error = "KeyError"
    /\ Len(requests) = 2
    /\ upstream[1] = OkResponse(<<Zorp, Rick>>, 2)
    /\ upstream[2] = NoInfoResponse(<<Rick>>)
    /\ parsed = 1

\* page p answers 200 with results and an info object that has a next key
WellFormed(p) ==
    /\ upstream[p].status = 200
    /\ upstream[p].json
    /\ "results" \in DOMAIN upstream[p].data
    /\ "info" \in DOMAIN upstream[p].data
    /\ "next" \in DOMAIN upstream[p].data["info"]

\* the pages the cursor visits in at most n steps from u
RECURSIVE ChainFrom(_, _)
ChainFrom(u, n) ==
    IF n = 0 \/ ~Truthy(u)
    THEN {}
    ELSE {u} \cup (IF WellFormed(u)
                   THEN ChainFrom(upstream[u].data["info"]["next"], n - 1)
                   ELSE {})

\* the next chain never fails and never ends: with finitely many pages it
\* leads back to a URL already requested
LeadsBack ==
    \A p \in ChainFrom(API_URL, NumPages) :
        WellFormed(p) /\ Truthy(upstream[p].data["info"]["next"])

\* the results of the first k answers, in request order
RECURSIVE FetchedUpTo(_)
FetchedUpTo(k) ==
    IF k = 0 THEN <<>> ELSE FetchedUpTo(k - 1) \o AnswerTo(k).data["results"]

\* requests i < j went to the same URL
Revisit(i, j) == i < j /\ requests[i].url = requests[j].url

\* C14 as stated - for an upstream whose next chain leads back to a URL
\* already requested and never fails, the fetch never returns, the service
\* never serves, and the accumulator has grown between any two requests to
\* the same URL.
C14_CycleGrowsAccumulator ==
    LeadsBack =>
        /\ pc \in {"loop", "get"}
        /\ ~cached
        /\ \A i, j \in 1..Len(requests) :
               Revisit(i, j) => Len(FetchedUpTo(j - 1)) > Len(FetchedUpTo(i - 1))

\* C14 - Termination depends only on the upstream: the loop is left only by
\* returning on a null or empty next taken from the last answer, or by an
\* exception at a page; an already requested URL is requested again; while
\* looping the accumulator is exactly the results of all pages answered so
\* far.  For an upstream whose next chain leads back to a URL already
\* requested and never fails, the fetch never returns, no cache is bound, no
\* request is served and no file is written; between two requests to the
\* same URL the accumulator grows exactly when a page in between is not
\* empty.
C14_TerminationDependsOnUpstream ==
    /\ [][(pc \in {"loop", "get"} /\ pc' \notin {"loop", "get"}) =>
             \/ pc' = "crashed" /\ pc = "get"
             \/ /\ pc' = "returned"
                /\ pc = "loop"
                /\ ~Truthy(url)
                /\ parsed = Len(requests)
                /\ parsed >= 1
                /\ url = AnswerTo(parsed).data["info"]["next"]]_vars
    /\ []((pc = "loop" /\ Truthy(url) /\ Len(requests) < MaxPages + 1) =>
              ENABLED SendRequest)
    /\ [](pc \in {"loop", "get"} => characters = FetchedUpTo(parsed))
    /\ [](LeadsBack =>
              /\ pc \in {"loop", "get"}
              /\ ~cached
              /\ _characters = <<>>
              /\ lastResponse = NoResponse
              /\ filename = ""
              /\ error = ""
              /\ \A i, j \in 1..Len(requests) :
                     Revisit(i, j) =>
                         (Len(FetchedUpTo(j - 1)) > Len(FetchedUpTo(i - 1))
                              <=> \E k \in i..(j - 1) :
                                      AnswerTo(k).data["results"] # <<>>))

C14_Witness ==
    /\ LeadsBack
    /\ pc = "loop"
    /\ upstream[1] = OkResponse(<<Rick>>, 2)
    /\ upstream[2] = OkResponse(<<Zorp, Rick>>, 1)
    /\ Len(requests) = 3
    /\ Revisit(1, 3)
    /\ characters = <<Rick, Zorp, Rick, Rick>>

====
